---- MODULE Spec2Model ----
(***************************************************************************)
(* Model of the light_presets integration: LightPresetsStore (store.py)    *)
(* and the service handlers registered by async_setup_entry (__init__.py). *)
(*                                                                         *)
(* Python dicts are functions with string domains; an Optional value is a  *)
(* sequence of length 0 (None) or 1.  A uuid is a fresh natural number.    *)
(* The host's Store (homeassistant.helpers.storage) is the environment: a  *)
(* write either records a snapshot of the document handed to it or raises. *)
(***************************************************************************)
EXTENDS Integers, Sequences, FiniteSets, TLC

VARIABLES
    data,       \* LightPresetsStore._data of the live store object
    persisted,  \* what Store.async_load would return: None or <<document>>
    nextId,     \* the next value _new_id() hands out
    ready,      \* async_setup_entry got past store.async_load(): services registered
    call        \* per task: the call it runs or has just finished: op and args,
                \* status ("running" is waiting in `await self.async_save()`),
                \* ret (the value the handler returns), lights (the light.turn_on
                \* calls made), pre (_data when the call came in), stored (what
                \* storage held when the call came in), saves (the
                \* Store.async_save calls made), reloaded (a new store object was
                \* loaded from storage after the call finished)

vars == <<data, persisted, nextId, ready, call>>

----------------------------------------------------------------------------
\* Bounds of the model

\* number of ids _new_id() hands out in one behaviour
MaxIds == 3

\* number of presets the document holds at a time when every attribute is varied
MaxPresets == 1

\* the two tasks the event loop may run; the host dispatcher runs "t1" only
Tasks == {"t1", "t2"}

----------------------------------------------------------------------------
\* const.py

STORAGE_VERSION == 1

DEFAULT_CATEGORY_NAME == "Default"

PRESET_TYPES == {"color_temp_kelvin", "rgb", "hs", "brightness_only"}

----------------------------------------------------------------------------
\* Python values

None == <<>>

Some(v) == <<v>>

\* dict.get(key)
Get(d, k) == IF k \in DOMAIN d THEN <<d[k]>> ELSE None

\* {**a, **b} and a.update(b)
Merge(a, b) ==
    [k \in (DOMAIN a) \cup (DOMAIN b) |-> IF k \in DOMAIN b THEN b[k] ELSE a[k]]

\* self._data = {} in __init__
EmptyDict == [k \in {} |-> 0]

\* [x for x in seq if x["id"] != id]
RECURSIVE FilterOutId(_, _)
FilterOutId(seq, id) ==
    IF seq = <<>> THEN <<>>
    ELSE LET rest == FilterOutId(Tail(seq), id)
         IN IF Head(seq)["id"] # id THEN <<Head(seq)>> \o rest ELSE rest

\* position of the first element of seq whose id is `id`, 0 when there is none
FirstWithId(seq, id) ==
    IF \E i \in DOMAIN seq : seq[i]["id"] = id
    THEN CHOOSE i \in DOMAIN seq :
            /\ seq[i]["id"] = id
            /\ \A j \in 1..(i - 1) : seq[j]["id"] # id
    ELSE 0

----------------------------------------------------------------------------
\* store.py

\* EmptyStore numbering the seeded category from 1
EmptyStoreOrderOne(id) ==
    [version |-> STORAGE_VERSION,
     categories |-> << [id |-> id,
                        name |-> DEFAULT_CATEGORY_NAME,
                        order |-> 1,
                        presets |-> <<>>] >>]

EmptyStore(id) ==
    [version |-> STORAGE_VERSION,
     categories |-> << [id |-> id,
                        name |-> DEFAULT_CATEGORY_NAME,
                        order |-> 0,
                        presets |-> <<>>] >>]

\* _find_category: the position of the category, 0 for None
FindCategory(d, category_id) == FirstWithId(d.categories, category_id)

\* _find_preset: <<category position, preset position>>, <<0, 0>> for None
FindPreset(d, category_id, preset_id) ==
    LET c == FindCategory(d, category_id)
    IN IF c = 0 THEN <<0, 0>>
       ELSE LET p == FirstWithId(d.categories[c].presets, preset_id)
            IN IF p = 0 THEN <<0, 0>> ELSE <<c, p>>

\* get_preset_by_id: None or <<preset>>
RECURSIVE ScanCategories(_, _)
ScanCategories(cats, preset_id) ==
    IF cats = <<>> THEN None
    ELSE LET p == FirstWithId(Head(cats).presets, preset_id)
         IN IF p # 0 THEN Some(Head(cats).presets[p])
            ELSE ScanCategories(Tail(cats), preset_id)

GetPresetById(d, preset_id) == ScanCategories(d.categories, preset_id)

\* The synchronous part of a store method, up to its `await self.async_save()`:
\* raised (ValueError), the document after it, the value it will return, and
\* the number of ids it took.
Raise(d) == [raised |-> TRUE, data |-> d, ret |-> None, took |-> 0]

Done(d, ret, took) == [raised |-> FALSE, data |-> d, ret |-> ret, took |-> took]

\* AsyncSaveCategory numbering a new category one past the largest order in use
AsyncSaveCategoryNextOrder(d, nid, category_id, name, order) ==
    IF category_id = None
    THEN LET used == {d.categories[i].order : i \in DOMAIN d.categories}
             new_order == IF order # None THEN order[1]
                          ELSE IF used = {} THEN 0
                          ELSE (CHOOSE m \in used : \A n \in used : n <= m) + 1
             cat == [id |-> nid, name |-> name, order |-> new_order, presets |-> <<>>]
         IN Done([d EXCEPT !.categories = Append(@, cat)], Some(cat), 1)
    ELSE LET c == FindCategory(d, category_id[1])
         IN IF c = 0 THEN Raise(d)
            ELSE LET cat == [d.categories[c] EXCEPT
                                !.name = name,
                                !.order = IF order # None THEN order[1] ELSE @]
                 IN Done([d EXCEPT !.categories[c] = cat], Some(cat), 0)

\* AsyncSaveCategory giving an updated category a new id
AsyncSaveCategoryNewId(d, nid, category_id, name, order) ==
    IF category_id = None
    THEN LET new_order == IF order # None THEN order[1] ELSE Len(d.categories)
             cat == [id |-> nid, name |-> name, order |-> new_order, presets |-> <<>>]
         IN Done([d EXCEPT !.categories = Append(@, cat)], Some(cat), 1)
    ELSE LET c == FindCategory(d, category_id[1])
         IN IF c = 0 THEN Raise(d)
            ELSE LET cat == [d.categories[c] EXCEPT
                                !.id = nid,
                                !.name = name,
                                !.order = IF order # None THEN order[1] ELSE @]
                 IN Done([d EXCEPT !.categories[c] = cat], Some(cat), 1)

\* AsyncSaveCategory giving an updated category the default order when the
\* call names none
AsyncSaveCategoryDefaultsOrder(d, nid, category_id, name, order) ==
    LET new_order == IF order # None THEN order[1] ELSE Len(d.categories)
    IN IF category_id = None
       THEN LET cat == [id |-> nid, name |-> name, order |-> new_order,
                        presets |-> <<>>]
            IN Done([d EXCEPT !.categories = Append(@, cat)], Some(cat), 1)
       ELSE LET c == FindCategory(d, category_id[1])
            IN IF c = 0 THEN Raise(d)
               ELSE LET cat == [d.categories[c] EXCEPT
                                   !.name = name, !.order = new_order]
                    IN Done([d EXCEPT !.categories[c] = cat], Some(cat), 0)

AsyncSaveCategory(d, nid, category_id, name, order) ==
    IF category_id = None
    THEN LET new_order == IF order # None THEN order[1] ELSE Len(d.categories)
             cat == [id |-> nid, name |-> name, order |-> new_order, presets |-> <<>>]
         IN Done([d EXCEPT !.categories = Append(@, cat)], Some(cat), 1)
    ELSE LET c == FindCategory(d, category_id[1])
         IN IF c = 0 THEN Raise(d)
            ELSE LET cat == [d.categories[c] EXCEPT
                                !.name = name,
                                !.order = IF order # None THEN order[1] ELSE @]
                 IN Done([d EXCEPT !.categories[c] = cat], Some(cat), 0)

\* AsyncDeleteCategory raising for an id that is not there
AsyncDeleteCategoryStrict(d, category_id) ==
    IF FindCategory(d, category_id) = 0 THEN Raise(d)
    ELSE Done([d EXCEPT !.categories = FilterOutId(@, category_id)], None, 0)

\* AsyncDeleteCategory emptying the category and leaving its presets to the
\* first category that stays
AsyncDeleteCategoryKeepPresets(d, category_id) ==
    LET c == FindCategory(d, category_id)
        kept == FilterOutId(d.categories, category_id)
    IN IF c = 0 \/ kept = <<>> THEN Done([d EXCEPT !.categories = kept], None, 0)
       ELSE Done([d EXCEPT !.categories =
                     [kept EXCEPT ![1].presets = @ \o d.categories[c].presets]],
                 None, 0)

AsyncDeleteCategory(d, category_id) ==
    Done([d EXCEPT !.categories = FilterOutId(@, category_id)], None, 0)

\* AsyncSavePreset replacing the preset by the supplied attributes
AsyncSavePresetReplace(d, nid, category_id, preset_id, preset_data) ==
    LET c == FindCategory(d, category_id)
    IN IF c = 0 THEN Raise(d)
       ELSE IF preset_id = None
       THEN LET preset == Merge([id |-> nid,
                                 order |-> Len(d.categories[c].presets)],
                                preset_data)
            IN Done([d EXCEPT !.categories[c].presets = Append(@, preset)],
                    Some(preset), 1)
       ELSE LET f == FindPreset(d, category_id, preset_id[1])
            IN IF f = <<0, 0>> THEN Raise(d)
               ELSE LET old == d.categories[f[1]].presets[f[2]]
                        preset == Merge([id |-> old["id"], order |-> old["order"]],
                                        preset_data)
                    IN Done([d EXCEPT !.categories[f[1]].presets[f[2]] = preset],
                            Some(preset), 0)

\* AsyncSavePreset looking the preset up in every category, not in the named one
AsyncSavePresetAnywhere(d, nid, category_id, preset_id, preset_data) ==
    LET c == FindCategory(d, category_id)
    IN IF c = 0 THEN Raise(d)
       ELSE IF preset_id = None
       THEN LET preset == Merge([id |-> nid,
                                 order |-> Len(d.categories[c].presets)],
                                preset_data)
            IN Done([d EXCEPT !.categories[c].presets = Append(@, preset)],
                    Some(preset), 1)
       ELSE IF GetPresetById(d, preset_id[1]) = None THEN Raise(d)
       ELSE LET k == CHOOSE i \in DOMAIN d.categories :
                        FirstWithId(d.categories[i].presets, preset_id[1]) # 0
                j == FirstWithId(d.categories[k].presets, preset_id[1])
                preset == Merge(d.categories[k].presets[j], preset_data)
            IN Done([d EXCEPT !.categories[k].presets[j] = preset], Some(preset), 0)

\* AsyncSavePreset putting a new preset at the head of the list
AsyncSavePresetPrepend(d, nid, category_id, preset_id, preset_data) ==
    LET c == FindCategory(d, category_id)
    IN IF c = 0 THEN Raise(d)
       ELSE IF preset_id = None
       THEN LET preset == Merge([id |-> nid,
                                 order |-> Len(d.categories[c].presets)],
                                preset_data)
            IN Done([d EXCEPT !.categories[c].presets = <<preset>> \o @],
                    Some(preset), 1)
       ELSE LET f == FindPreset(d, category_id, preset_id[1])
            IN IF f = <<0, 0>> THEN Raise(d)
               ELSE LET preset == Merge(d.categories[f[1]].presets[f[2]], preset_data)
                    IN Done([d EXCEPT !.categories[f[1]].presets[f[2]] = preset],
                            Some(preset), 0)

AsyncSavePreset(d, nid, category_id, preset_id, preset_data) ==
    LET c == FindCategory(d, category_id)
    IN IF c = 0 THEN Raise(d)
       ELSE IF preset_id = None
       THEN LET preset == Merge([id |-> nid,
                                 order |-> Len(d.categories[c].presets)],
                                preset_data)
            IN Done([d EXCEPT !.categories[c].presets = Append(@, preset)],
                    Some(preset), 1)
       ELSE LET f == FindPreset(d, category_id, preset_id[1])
            IN IF f = <<0, 0>> THEN Raise(d)
               ELSE LET preset == Merge(d.categories[f[1]].presets[f[2]], preset_data)
                    IN Done([d EXCEPT !.categories[f[1]].presets[f[2]] = preset],
                            Some(preset), 0)

\* the ids of the presets of the category with this id
PresetIdsIn(d, category_id) ==
    LET c == FindCategory(d, category_id)
    IN IF c = 0 THEN {}
       ELSE {d.categories[c].presets[j].id : j \in DOMAIN d.categories[c].presets}

\* AsyncDeletePreset numbering the presets that stay from 0
AsyncDeletePresetRenumbers(d, category_id, preset_id) ==
    LET c == FindCategory(d, category_id)
    IN IF c = 0 THEN Raise(d)
       ELSE LET kept == FilterOutId(d.categories[c].presets, preset_id)
                presets == [j \in DOMAIN kept |->
                                Merge(kept[j], [k \in {"order"} |-> j - 1])]
            IN Done([d EXCEPT !.categories[c].presets = presets], None, 0)

AsyncDeletePreset(d, category_id, preset_id) ==
    LET c == FindCategory(d, category_id)
    IN IF c = 0 THEN Raise(d)
       ELSE Done([d EXCEPT !.categories[c].presets = FilterOutId(@, preset_id)],
                 None, 0)

----------------------------------------------------------------------------
\* __init__.py: the schemas of the services

Keys(d) == DOMAIN d

\* vol.Schema({...}): every Required key is there, no key outside the schema
HasKeys(d, required, optional) ==
    /\ required \subseteq Keys(d)
    /\ Keys(d) \subseteq (required \cup optional)

\* vol.Range(min=lo, max=hi) after vol.Coerce(int) on an integer
InRange(v, lo, hi) == lo <= v /\ v <= hi

ApplyColorSchema(d) == HasKeys(d, {"preset_id", "entity_id"}, {})

SaveCategorySchema(d) == HasKeys(d, {"name"}, {"category_id", "order"})

DeleteCategorySchema(d) == HasKeys(d, {"category_id"}, {})

SavePresetSchema(d) ==
    /\ HasKeys(d, {"category_id", "name", "type"},
               {"preset_id", "brightness_pct", "transition", "color_temp_kelvin",
                "rgb_color", "hs_color", "order"})
    /\ d["type"] \in PRESET_TYPES
    /\ "brightness_pct" \in Keys(d) => InRange(d["brightness_pct"], 0, 100)
    /\ "transition" \in Keys(d) => d["transition"] >= 0
    /\ "color_temp_kelvin" \in Keys(d) => InRange(d["color_temp_kelvin"], 1000, 10000)
    /\ "rgb_color" \in Keys(d) =>
            /\ Len(d["rgb_color"]) = 3
            /\ \A i \in 1..3 : InRange(d["rgb_color"][i], 0, 255)
    /\ "hs_color" \in Keys(d) => Len(d["hs_color"]) = 2

DeletePresetSchema(d) == HasKeys(d, {"category_id", "preset_id"}, {})

----------------------------------------------------------------------------
\* __init__.py: what the handlers compute

\* handle_save_preset: name and type always, the other keys when supplied
PresetData(d) ==
    [k \in Keys(d) \cap {"name", "type", "brightness_pct", "transition",
                         "color_temp_kelvin", "rgb_color", "hs_color", "order"}
       |-> d[k]]

\* the colour key handle_apply_color reads for a preset type, None for no key
ColorKey(preset_type) ==
    IF preset_type = Some("color_temp_kelvin") THEN Some("color_temp_kelvin")
    ELSE IF preset_type = Some("rgb") THEN Some("rgb_color")
    ELSE IF preset_type = Some("hs") THEN Some("hs_color")
    ELSE None

\* handle_apply_color: the light.turn_on data of a preset; None is the KeyError
\* of preset[key] on a preset without the key of its type
ServiceData(preset) ==
    LET base == [k \in {"brightness_pct", "transition"} \cap Keys(preset)
                   |-> preset[k]]
        key == ColorKey(Get(preset, "type"))
    IN IF key = None THEN Some(base)
       ELSE IF key[1] \notin Keys(preset) THEN None
       ELSE Some(Merge(base, [k \in {key[1]} |-> preset[key[1]]]))

\* one hass.services.async_call("light", "turn_on", ...) per entity id, in order
TurnOnCalls(entity_ids, service_data) ==
    [i \in 1..Len(entity_ids) |->
        Merge([k \in {"entity_id"} |-> entity_ids[i]], service_data)]

----------------------------------------------------------------------------
\* The record of a service call

NoCall ==
    [op |-> "none", args |-> EmptyDict, status |-> "none", ret |-> None,
     lights |-> <<>>, pre |-> EmptyDict, stored |-> None, saves |-> 0,
     reloaded |-> FALSE]

NewCall(op, args, status, ret, lights) ==
    [op |-> op, args |-> args, status |-> status, ret |-> ret,
     lights |-> lights, pre |-> data, stored |-> persisted, saves |-> 0,
     reloaded |-> FALSE]

Init ==
    /\ data = EmptyDict
    /\ persisted = None
    /\ nextId = 1
    /\ ready = FALSE
    /\ call = [t \in Tasks |-> NoCall]


----------------------------------------------------------------------------
\* The calls the host makes

\* an id no _new_id() call returns
UnknownId == MaxIds + 1

\* the ids a caller can name: every id handed out so far, and one that never was
IdArgs == (1..(nextId - 1)) \cup {UnknownId}

\* the optional key k of a call: left out, or one of the values vs
Opt(k, vs) == {EmptyDict} \cup {k :> v : v \in vs}

\* an element of a list whose elements the schema does not look at (hs_color):
\* a Python number or a Python str; the tag keeps the two apart
Number(n) == <<"number", n>>

Str(s) == <<"str", s>>

\* attributes of save_preset calls: an rgb preset and a colour temperature preset
Red == [name |-> "Red", type |-> "rgb", rgb_color |-> <<255, 0, 0>>,
        brightness_pct |-> 80]

Warm == [name |-> "Warm", type |-> "color_temp_kelvin",
         color_temp_kelvin |-> 3000, transition |-> 2]

\* ... an hs preset, a brightness_only preset with an explicit order, and a
\* preset whose type names a colour it does not carry
Sky == [name |-> "Sky", type |-> "hs", hs_color |-> <<Number(200), Number(50)>>]

Dim == [name |-> "Dim", type |-> "brightness_only", brightness_pct |-> 50,
        order |-> 7]

Bare == [name |-> "Red", type |-> "rgb"]

\* ... and a colour out of range, which the schema rejects
TooRed == [name |-> "Red", type |-> "rgb", rgb_color |-> <<300, 0, 0>>]

Entities == {<<"light.a">>, <<"light.a", "light.b">>}

SaveCategoryCalls ==
    {("name" :> "Scenes") @@ cid @@ ord :
        cid \in Opt("category_id", IdArgs), ord \in Opt("order", {5})}
    \cup {"order" :> 5}

DeleteCategoryCalls == {"category_id" :> i : i \in IdArgs}

SavePresetCalls ==
    {a @@ ("category_id" :> c) @@ pid :
        a \in {Red, Warm}, c \in IdArgs, pid \in Opt("preset_id", IdArgs)}
    \cup {TooRed @@ ("category_id" :> 1)}

DeletePresetCalls ==
    {("category_id" :> c) @@ ("preset_id" :> i) : c \in IdArgs, i \in IdArgs}

\* the ids in the document
CategoryIds(d) == {d.categories[i].id : i \in DOMAIN d.categories}

PresetIds(d) ==
    UNION {{d.categories[i].presets[j].id : j \in DOMAIN d.categories[i].presets} :
              i \in DOMAIN d.categories}

\* len of all the preset lists together
RECURSIVE NumPresets(_)
NumPresets(cats) ==
    IF cats = <<>> THEN 0 ELSE Len(Head(cats).presets) + NumPresets(Tail(cats))

\* save_preset with every kind of attributes, on the ids in the document
AttrSavePresetCalls ==
    {a @@ ("category_id" :> c) @@ pid :
        a \in {Red, Warm, Sky, Dim, Bare},
        c \in CategoryIds(data),
        pid \in IF NumPresets(data.categories) < MaxPresets
                THEN Opt("preset_id", PresetIds(data))
                ELSE Opt("preset_id", PresetIds(data)) \ {EmptyDict}}
    \cup {TooRed @@ ("category_id" :> c) : c \in CategoryIds(data)}

AttrDeletePresetCalls ==
    {("category_id" :> c) @@ ("preset_id" :> i) :
        c \in CategoryIds(data), i \in PresetIds(data)}

AttrApplyColorCalls ==
    {("preset_id" :> i) @@ ("entity_id" :> e) : i \in PresetIds(data), e \in Entities}

ApplyColorCalls ==
    {("preset_id" :> i) @@ ("entity_id" :> e) : i \in IdArgs, e \in Entities}

\* save_preset attributes outside what the service documents: a type that is
\* no preset type, a brightness over 100, a negative transition, a colour
\* temperature under 1000, an rgb list of two, an hs list of one, and an hs
\* list of two strs
Plaid == [name |-> "Plaid", type |-> "plaid"]

Glare == [name |-> "Glare", type |-> "brightness_only", brightness_pct |-> 101]

Rewind == [name |-> "Rewind", type |-> "brightness_only", transition |-> -1]

Ember == [name |-> "Ember", type |-> "color_temp_kelvin", color_temp_kelvin |-> 999]

Cyan == [name |-> "Cyan", type |-> "rgb", rgb_color |-> <<0, 255>>]

Hue == [name |-> "Hue", type |-> "hs", hs_color |-> <<Number(200)>>]

Words == [name |-> "Words", type |-> "hs", hs_color |-> <<Str("warm"), Str("cool")>>]

\* save_preset calls with such attributes, and with a required key left out
OddSavePresetCalls ==
    {a @@ ("category_id" :> 1) :
        a \in {Plaid, Glare, Rewind, Ember, Cyan, TooRed, Hue, Words}}
    \cup {Warm, ("category_id" :> 1) @@ ("name" :> "Warm"),
          ("category_id" :> 1) @@ ("type" :> "rgb")}

\* calls of the other services with a required key left out
OddApplyColorCalls == {"preset_id" :> 1, "entity_id" :> <<"light.a">>}

OddSaveCategoryCalls == {"order" :> 5, "category_id" :> 1}

OddDeleteCategoryCalls == {EmptyDict}

OddDeletePresetCalls == {"category_id" :> 1, "preset_id" :> 1}

----------------------------------------------------------------------------
\* The steps of the tasks

\* the dispatcher hands task t a service call
CanCall(t) == ready /\ call[t] = NoCall

\* a handler that ends without reaching the store's write
Ends(t, op, args, status, ret, lights) ==
    /\ call' = [call EXCEPT ![t] = NewCall(op, args, status, ret, lights)]
    /\ UNCHANGED <<data, persisted, nextId, ready>>

\* Runs not awaiting the write: the method returns, the write is left for later
RunsWithoutAwait(t, op, args, r) ==
    IF r.raised
    THEN Ends(t, op, args, "not_found", None, <<>>)
    ELSE /\ nextId + r.took <= MaxIds + 1
         /\ data' = r.data
         /\ nextId' = nextId + r.took
         /\ call' = [call EXCEPT ![t] = NewCall(op, args, "ok", r.ret, <<>>)]
         /\ UNCHANGED <<persisted, ready>>

\* a store method ran up to its await (r is its synchronous part)
Runs(t, op, args, r) ==
    IF r.raised
    THEN Ends(t, op, args, "not_found", None, <<>>)
    ELSE /\ nextId + r.took <= MaxIds + 1
         /\ data' = r.data
         /\ nextId' = nextId + r.took
         /\ call' = [call EXCEPT ![t] = NewCall(op, args, "running", r.ret, <<>>)]
         /\ UNCHANGED <<persisted, ready>>

\* SetupEntry seeding the document whatever is stored
SetupEntryAlwaysSeeds(t) ==
    /\ \A u \in Tasks : call[u].status # "running"
    /\ nextId <= MaxIds
    /\ data' = EmptyStore(nextId)
    /\ nextId' = nextId + 1
    /\ ready' = (persisted # None)
    /\ call' = [u \in Tasks |->
                    IF call[u] = NoCall
                    THEN IF u = t /\ persisted = None
                         THEN NewCall("load", EmptyDict, "running", None, <<>>)
                         ELSE NoCall
                    ELSE [call[u] EXCEPT !.reloaded = TRUE]]
    /\ UNCHANGED persisted

\* SetupEntry seeding the document also when the stored one has no category
SetupEntrySeedsEmpty(t) ==
    /\ \A u \in Tasks : call[u].status # "running"
    /\ IF persisted = None
       THEN /\ call[t] = NoCall
            /\ nextId <= MaxIds
            /\ data' = EmptyStore(nextId)
            /\ nextId' = nextId + 1
            /\ ready' = FALSE
            /\ call' = [call EXCEPT ![t] =
                            NewCall("load", EmptyDict, "running", None, <<>>)]
            /\ UNCHANGED persisted
       ELSE /\ IF persisted[1].categories = <<>>
               THEN /\ nextId <= MaxIds
                    /\ data' = EmptyStore(nextId)
                    /\ nextId' = nextId + 1
               ELSE /\ data' = persisted[1]
                    /\ nextId' = nextId
            /\ ready' = TRUE
            /\ call' = [u \in Tasks |->
                            IF call[u] = NoCall THEN NoCall
                            ELSE [call[u] EXCEPT !.reloaded = TRUE]]
            /\ UNCHANGED persisted

\* async_setup_entry: a new LightPresetsStore, then async_load. With nothing
\* stored it seeds the document and waits for the write; otherwise it takes the
\* stored document (the host restarting, or reloading the entry, between calls).
SetupEntry(t) ==
    /\ \A u \in Tasks : call[u].status # "running"
    /\ IF persisted = None
       THEN /\ call[t] = NoCall
            /\ nextId <= MaxIds
            /\ data' = EmptyStore(nextId)
            /\ nextId' = nextId + 1
            /\ ready' = FALSE
            /\ call' = [call EXCEPT ![t] =
                            NewCall("load", EmptyDict, "running", None, <<>>)]
            /\ UNCHANGED persisted
       ELSE /\ data' = persisted[1]
            /\ ready' = TRUE
            /\ call' = [u \in Tasks |->
                            IF call[u] = NoCall THEN NoCall
                            ELSE [call[u] EXCEPT !.reloaded = TRUE]]
            /\ UNCHANGED <<persisted, nextId>>

HandleGetPresets(t) ==
    /\ CanCall(t)
    /\ Ends(t, "get_presets", EmptyDict, "ok", Some(data), <<>>)

\* HandleApplyColor raising for a preset that is not there
HandleApplyColorStrict(t, d) ==
    /\ CanCall(t)
    /\ IF ~ApplyColorSchema(d)
       THEN Ends(t, "applyColor", d, "invalid", None, <<>>)
       ELSE LET preset == GetPresetById(data, d["preset_id"])
            IN IF preset = None
               THEN Ends(t, "applyColor", d, "not_found", None, <<>>)
               ELSE LET service_data == ServiceData(preset[1])
                    IN IF service_data = None
                       THEN Ends(t, "applyColor", d, "key_error", None, <<>>)
                       ELSE Ends(t, "applyColor", d, "ok", None,
                                 TurnOnCalls(d["entity_id"], service_data[1]))

HandleApplyColor(t, d) ==
    /\ CanCall(t)
    /\ IF ~ApplyColorSchema(d)
       THEN Ends(t, "applyColor", d, "invalid", None, <<>>)
       ELSE LET preset == GetPresetById(data, d["preset_id"])
            IN IF preset = None
               THEN Ends(t, "applyColor", d, "ok", None, <<>>)
               ELSE LET service_data == ServiceData(preset[1])
                    IN IF service_data = None
                       THEN Ends(t, "applyColor", d, "key_error", None, <<>>)
                       ELSE Ends(t, "applyColor", d, "ok", None,
                                 TurnOnCalls(d["entity_id"], service_data[1]))

HandleSaveCategory(t, d) ==
    /\ CanCall(t)
    /\ IF ~SaveCategorySchema(d)
       THEN Ends(t, "save_category", d, "invalid", None, <<>>)
       ELSE Runs(t, "save_category", d,
                 AsyncSaveCategory(data, nextId, Get(d, "category_id"),
                                   d["name"], Get(d, "order")))

HandleDeleteCategory(t, d) ==
    /\ CanCall(t)
    /\ IF ~DeleteCategorySchema(d)
       THEN Ends(t, "delete_category", d, "invalid", None, <<>>)
       ELSE Runs(t, "delete_category", d,
                 AsyncDeleteCategory(data, d["category_id"]))

HandleSavePreset(t, d) ==
    /\ CanCall(t)
    /\ IF ~SavePresetSchema(d)
       THEN Ends(t, "save_preset", d, "invalid", None, <<>>)
       ELSE Runs(t, "save_preset", d,
                 AsyncSavePreset(data, nextId, d["category_id"],
                                 Get(d, "preset_id"), PresetData(d)))

HandleDeletePreset(t, d) ==
    /\ CanCall(t)
    /\ IF ~DeletePresetSchema(d)
       THEN Ends(t, "delete_preset", d, "invalid", None, <<>>)
       ELSE Runs(t, "delete_preset", d,
                 AsyncDeletePreset(data, d["category_id"], d["preset_id"]))

\* the document the store method of the call c made of c.pre
Effect(c) ==
    CASE c.op = "save_category" ->
            AsyncSaveCategory(c.pre, c.ret[1].id, Get(c.args, "category_id"),
                              c.args["name"], Get(c.args, "order")).data
      [] c.op = "delete_category" ->
            AsyncDeleteCategory(c.pre, c.args["category_id"]).data
      [] c.op = "save_preset" ->
            AsyncSavePreset(c.pre, c.ret[1]["id"], c.args["category_id"],
                            Get(c.args, "preset_id"), PresetData(c.args)).data
      [] c.op = "delete_preset" ->
            AsyncDeletePreset(c.pre, c.args["category_id"], c.args["preset_id"]).data
      [] OTHER -> data

\* AsyncSave writing the document as the call's own method left it, whatever
\* other calls did to it since
AsyncSaveOwnDocument(t) ==
    /\ call[t].status = "running"
    /\ persisted' = Some(Effect(call[t]))
    /\ call' = [call EXCEPT ![t].status = "ok", ![t].saves = @ + 1]
    /\ ready' = IF call[t].op = "load" THEN TRUE ELSE ready
    /\ UNCHANGED <<data, nextId>>

\* AsyncSave writing the document as it was before the method changed it
AsyncSaveBeforeChange(t) ==
    /\ call[t].status = "running"
    /\ persisted' = Some(call[t].pre)
    /\ call' = [call EXCEPT ![t].status = "ok", ![t].saves = @ + 1]
    /\ ready' = IF call[t].op = "load" THEN TRUE ELSE ready
    /\ UNCHANGED <<data, nextId>>

\* Store.async_save(self._data) wrote the document; the awaiting method returns
AsyncSave(t) ==
    /\ call[t].status = "running"
    /\ persisted' = Some(data)
    /\ call' = [call EXCEPT ![t].status = "ok", ![t].saves = @ + 1]
    /\ ready' = IF call[t].op = "load" THEN TRUE ELSE ready
    /\ UNCHANGED <<data, nextId>>

\* AsyncSaveFails putting the document back as it was before the call
AsyncSaveFailsRollsBack(t) ==
    /\ call[t].status = "running"
    /\ data' = call[t].pre
    /\ call' = [call EXCEPT ![t].status = "persist_error", ![t].saves = @ + 1]
    /\ UNCHANGED <<persisted, nextId, ready>>

\* Store.async_save raised; nothing catches it
AsyncSaveFails(t) ==
    /\ call[t].status = "running"
    /\ call' = [call EXCEPT ![t].status = "persist_error", ![t].saves = @ + 1]
    /\ UNCHANGED <<data, persisted, nextId, ready>>

\* the handler returned or raised: the host passes that on to the caller
Respond(t) ==
    /\ call[t].status \notin {"none", "running"}
    /\ call' = [call EXCEPT ![t] = NoCall]
    /\ UNCHANGED <<data, persisted, nextId, ready>>

\* the host dispatches one call at a time
HostTasks == {"t1"}

Next ==
    \E t \in HostTasks :
        \/ SetupEntry(t)
        \/ HandleGetPresets(t)
        \/ \E d \in ApplyColorCalls : HandleApplyColor(t, d)
        \/ \E d \in SaveCategoryCalls : HandleSaveCategory(t, d)
        \/ \E d \in DeleteCategoryCalls : HandleDeleteCategory(t, d)
        \/ \E d \in SavePresetCalls : HandleSavePreset(t, d)
        \/ \E d \in DeletePresetCalls : HandleDeletePreset(t, d)
        \/ AsyncSave(t)
        \/ Respond(t)

\* the command surface, the storage writes succeeding
Spec == Init /\ [][Next]_vars

\* the presets of the document under every kind of attributes
NextAttrs ==
    \E t \in HostTasks :
        \/ SetupEntry(t)
        \/ CanCall(t) /\ \E d \in AttrApplyColorCalls : HandleApplyColor(t, d)
        \/ CanCall(t) /\ \E d \in AttrSavePresetCalls : HandleSavePreset(t, d)
        \/ CanCall(t) /\ \E d \in AttrDeletePresetCalls : HandleDeletePreset(t, d)
        \/ AsyncSave(t)
        \/ Respond(t)

SpecAttrs == Init /\ [][NextAttrs]_vars

\* the command surface, calls outside the documented arguments included
NextOdd ==
    \/ Next
    \/ \E t \in HostTasks :
        \/ \E d \in OddApplyColorCalls : HandleApplyColor(t, d)
        \/ \E d \in OddSaveCategoryCalls : HandleSaveCategory(t, d)
        \/ \E d \in OddDeleteCategoryCalls : HandleDeleteCategory(t, d)
        \/ \E d \in OddSavePresetCalls : HandleSavePreset(t, d)
        \/ \E d \in OddDeletePresetCalls : HandleDeletePreset(t, d)

SpecOdd == Init /\ [][NextOdd]_vars

\* two callers: the calls one task can start while the other is in its wait
PairSaveCategoryCalls ==
    {"name" :> "Scenes"}
    \cup {("name" :> "Scenes") @@ ("category_id" :> c) : c \in CategoryIds(data)}

PairDeleteCategoryCalls == {"category_id" :> c : c \in CategoryIds(data)}

PairSavePresetCalls ==
    {Red @@ ("category_id" :> c) : c \in CategoryIds(data)}
    \cup UNION {{Warm @@ ("category_id" :> c) @@ ("preset_id" :> i) :
                    i \in PresetIdsIn(data, c)} : c \in CategoryIds(data)}

PairDeletePresetCalls ==
    UNION {{("category_id" :> c) @@ ("preset_id" :> i) :
              i \in PresetIdsIn(data, c)} : c \in CategoryIds(data)}

\* calls one at a time from the first task, then one call of the second task
\* and the call of the first that comes before it, after it or during it: a
\* task that is in `await self.async_save()` leaves the event loop to the other
NextPair ==
    \/ SetupEntry("t1")
    \/ \E t \in Tasks :
        \/ CanCall(t) /\ \E d \in PairSaveCategoryCalls : HandleSaveCategory(t, d)
        \/ CanCall(t) /\ \E d \in PairDeleteCategoryCalls : HandleDeleteCategory(t, d)
        \/ CanCall(t) /\ \E d \in PairSavePresetCalls : HandleSavePreset(t, d)
        \/ CanCall(t) /\ \E d \in PairDeletePresetCalls : HandleDeletePreset(t, d)
        \/ AsyncSave(t)
    \/ call["t2"] = NoCall /\ Respond("t1")

SpecPair == Init /\ [][NextPair]_vars

\* calls one at a time, each storage write succeeding or raising: saves that
\* name ids of the document, deletes that name any id
NextFail ==
    \E t \in HostTasks :
        \/ SetupEntry(t)
        \/ CanCall(t) /\ \E d \in PairSaveCategoryCalls : HandleSaveCategory(t, d)
        \/ \E d \in DeleteCategoryCalls : HandleDeleteCategory(t, d)
        \/ CanCall(t) /\ \E d \in PairSavePresetCalls : HandleSavePreset(t, d)
        \/ \E d \in DeletePresetCalls : HandleDeletePreset(t, d)
        \/ AsyncSave(t)
        \/ AsyncSaveFails(t)
        \/ Respond(t)

SpecFail == Init /\ [][NextFail]_vars


----------------------------------------------------------------------------
\* Properties

MutatingOps == {"save_category", "delete_category", "save_preset", "delete_preset"}

\* the call was handed to the store: it passed the schema of its service
Reached(c) == c.status \notin {"none", "invalid"}

\* C1: whenever a mutating call (a load that seeds the document, save_category,
\* delete_category, save_preset, delete_preset) has returned successfully, the
\* persisted document equals the in-memory document.
C1_PersistedEqualsMemory ==
    \A t \in Tasks :
        (call[t].op \in MutatingOps \cup {"load"} /\ call[t].status = "ok")
            => persisted = Some(data)

\* a save_preset returned after changing the document
C1_Witness ==
    \E t \in Tasks :
        /\ call[t].op = "save_preset"
        /\ call[t].status = "ok"
        /\ data # call[t].pre
        /\ persisted = Some(data)

\* the calls C2 says fail with NotFound
NotFoundCase(c) ==
    \/ /\ c.op = "save_category"
       /\ "category_id" \in DOMAIN c.args
       /\ c.args["category_id"] \notin CategoryIds(c.pre)
    \/ /\ c.op = "save_preset"
       /\ \/ c.args["category_id"] \notin CategoryIds(c.pre)
          \/ /\ "preset_id" \in DOMAIN c.args
             /\ c.args["preset_id"] \notin PresetIdsIn(c.pre, c.args["category_id"])
    \/ /\ c.op = "delete_preset"
       /\ c.args["category_id"] \notin CategoryIds(c.pre)

\* C2: save_category with a category id not in the document, save_preset with a
\* category id not in the document (create or update) or with a preset id not
\* in the named category (even if another category holds it), and delete_preset
\* with a category id not in the document fail with NotFound; a call that fails
\* with NotFound leaves the in-memory document and the persisted one as they
\* were and makes no write.
C2_NotFoundNoEffect ==
    \A t \in Tasks :
        LET c == call[t]
        IN /\ (Reached(c) /\ NotFoundCase(c)) => c.status = "not_found"
           /\ c.status = "not_found" =>
                /\ NotFoundCase(c)
                /\ data = c.pre
                /\ persisted = Some(c.pre)
                /\ c.saves = 0
                /\ c.ret = None

\* save_preset named a category and a preset of another category
C2_Witness ==
    \E t \in Tasks :
        /\ call[t].op = "save_preset"
        /\ call[t].status = "not_found"
        /\ call[t].args["category_id"] \in CategoryIds(call[t].pre)
        /\ "preset_id" \in DOMAIN call[t].args
        /\ call[t].args["preset_id"] \in PresetIds(call[t].pre)

\* the colour attributes of a preset, and the one the spec gives each type
ColourKeys == {"color_temp_kelvin", "rgb_color", "hs_color"}

ColourOfType(type) ==
    CASE type = "color_temp_kelvin" -> {"color_temp_kelvin"}
      [] type = "rgb" -> {"rgb_color"}
      [] type = "hs" -> {"hs_color"}
      [] OTHER -> {}

\* C3: for every preset applyColor finds by id and every list of n entity ids,
\* applyColor makes exactly n light.turn_on calls, one per entity id in order,
\* each carrying brightness_pct and transition exactly when the preset has
\* them, the one colour field of the preset's type, and no other key.
C3_ApplyColorProjection ==
    \A t \in Tasks :
        LET c == call[t]
        IN (/\ c.op = "applyColor"
            /\ Reached(c)
            /\ GetPresetById(c.pre, c.args["preset_id"]) # None) =>
                LET p == GetPresetById(c.pre, c.args["preset_id"])[1]
                    ids == c.args["entity_id"]
                    keys == ({"brightness_pct", "transition"} \cap DOMAIN p)
                                \cup ColourOfType(p["type"])
                IN /\ c.status = "ok"
                   /\ Len(c.lights) = Len(ids)
                   /\ \A i \in 1..Len(ids) :
                        /\ DOMAIN c.lights[i] = keys \cup {"entity_id"}
                        /\ c.lights[i]["entity_id"] = ids[i]
                        /\ \A k \in keys : c.lights[i][k] = p[k]

\* every preset of a document
PresetsOf(d) ==
    IF "categories" \in DOMAIN d
    THEN UNION {{d.categories[i].presets[j] : j \in DOMAIN d.categories[i].presets} :
                   i \in DOMAIN d.categories}
    ELSE {}

\* C4: whenever no call is in progress, every stored preset has exactly the
\* colour attribute of its type: color_temp_kelvin only for type
\* color_temp_kelvin, rgb_color only for rgb, hs_color only for hs, none for
\* brightness_only.
C4_ColourMatchesType ==
    (\A t \in Tasks : call[t].status # "running") =>
        \A p \in PresetsOf(data) :
            (DOMAIN p) \cap ColourKeys = ColourOfType(p["type"])

\* where the preset a save_preset update names sat before the call
UpdateAt(c) ==
    LET ci == CHOOSE i \in DOMAIN c.pre.categories :
                    c.pre.categories[i].id = c.args["category_id"]
        pi == CHOOSE j \in DOMAIN c.pre.categories[ci].presets :
                    c.pre.categories[ci].presets[j]["id"] = c.args["preset_id"]
    IN <<ci, pi>>

IsUpdate(c) ==
    /\ c.op = "save_preset"
    /\ c.status \in {"running", "ok"}
    /\ "preset_id" \in DOMAIN c.args

\* C5: save_preset with an existing preset id gives the supplied attributes
\* their new values and leaves every other field of the preset (its id too) as
\* it was; the preset stays at its position, and nothing else in the document
\* changes.
C5_UpdateMerges ==
    \A t \in Tasks :
        LET c == call[t]
        IN IsUpdate(c) =>
            LET ci == UpdateAt(c)[1]
                pi == UpdateAt(c)[2]
                attrs == (DOMAIN c.args) \ {"category_id", "preset_id"}
                old == c.pre.categories[ci].presets[pi]
                new == data.categories[ci].presets[pi]
            IN /\ DOMAIN new = (DOMAIN old) \cup attrs
               /\ \A k \in attrs : new[k] = c.args[k]
               /\ \A k \in (DOMAIN old) \ attrs : new[k] = old[k]
               /\ new["id"] = c.args["preset_id"]
               /\ data = [c.pre EXCEPT !.categories[ci].presets[pi] = new]
               /\ c.ret = Some(new)

\* an update of one of two presets of a category that kept a field it was not given
C5_Witness ==
    \E t \in Tasks :
        /\ IsUpdate(call[t])
        /\ call[t].status = "ok"
        /\ LET ci == UpdateAt(call[t])[1]
               pi == UpdateAt(call[t])[2]
           IN /\ Len(data.categories[ci].presets) = 2
              /\ "rgb_color" \in DOMAIN data.categories[ci].presets[pi]
              /\ "rgb_color" \notin DOMAIN call[t].args
              /\ data.categories[ci].presets[pi]["name"]
                    # call[t].pre.categories[ci].presets[pi]["name"]

\* the deletes C6 says are no-ops
MissingDelete(c) ==
    \/ /\ c.op = "delete_category"
       /\ c.args["category_id"] \notin CategoryIds(c.pre)
    \/ /\ c.op = "delete_preset"
       /\ c.args["category_id"] \in CategoryIds(c.pre)
       /\ c.args["preset_id"] \notin PresetIdsIn(c.pre, c.args["category_id"])

\* C6: delete_category with a category id not in the document and
\* delete_preset with a preset id not in the named existing category raise
\* nothing, leave the document as it was, and return after one write of it.
C6_MissingDeleteIsNoOp ==
    \A t \in Tasks :
        LET c == call[t]
        IN (Reached(c) /\ MissingDelete(c)) =>
            /\ c.status \in {"running", "ok"}
            /\ data = c.pre
            /\ c.status = "ok" => (c.saves = 1 /\ persisted = Some(c.pre))

\* a delete_preset naming a preset that sits in another category has returned
C6_Witness ==
    \E t \in Tasks :
        /\ call[t].op = "delete_preset"
        /\ MissingDelete(call[t])
        /\ call[t].args["preset_id"] \in PresetIds(call[t].pre)
        /\ call[t].status = "ok"
        /\ call[t].saves = 1

\* C7: after delete_category on an existing category, get_preset_by_id finds
\* none of the presets that were in it, neither in the live store nor, once the
\* call has returned, in the persisted document or in a store loaded from it.
C7_DeleteCategoryCascades ==
    \A t \in Tasks :
        LET c == call[t]
        IN (/\ c.op = "delete_category"
            /\ c.status \in {"running", "ok"}
            /\ c.args["category_id"] \in CategoryIds(c.pre)) =>
                \A p \in PresetIdsIn(c.pre, c.args["category_id"]) :
                    /\ GetPresetById(data, p) = None
                    /\ c.status = "ok" => GetPresetById(persisted[1], p) = None

\* a category with a preset was deleted, and a new store loaded after that
C7_Witness ==
    \E t \in Tasks :
        /\ call[t].op = "delete_category"
        /\ call[t].status = "ok"
        /\ call[t].reloaded
        /\ PresetIdsIn(call[t].pre, call[t].args["category_id"]) # {}
        /\ Len(data.categories) >= 1

\* C8: after a save_preset that returned, a new store loaded from the persisted
\* document returns for that preset's id a preset equal to the returned one.
C8_SavePresetRoundTrip ==
    \A t \in Tasks :
        LET c == call[t]
        IN (c.op = "save_preset" /\ c.status = "ok") =>
            /\ GetPresetById(persisted[1], c.ret[1]["id"]) = c.ret
            /\ c.reloaded => GetPresetById(data, c.ret[1]["id"]) = c.ret

\* an update that left the preset with both optional numbers and two colours
\* was read back from a reloaded store
C8_Witness ==
    \E t \in Tasks :
        /\ call[t].op = "save_preset"
        /\ call[t].status = "ok"
        /\ call[t].reloaded
        /\ "preset_id" \in DOMAIN call[t].args
        /\ {"brightness_pct", "transition", "rgb_color", "color_temp_kelvin"}
                \subseteq DOMAIN call[t].ret[1]
        /\ GetPresetById(data, call[t].ret[1]["id"]) = call[t].ret

\* C9: a load that finds nothing stored leaves a document of version 1 with one
\* category named "Default", order 0, no presets, and returns after writing it:
\* the persisted document is then the in-memory one.
C9_LoadSeedsDefault ==
    \A t \in Tasks :
        LET c == call[t]
        IN (c.op = "load" /\ c.status \in {"running", "ok"}) =>
            /\ DOMAIN data = {"version", "categories"}
            /\ data.version = 1
            /\ Len(data.categories) = 1
            /\ DOMAIN data.categories[1] = {"id", "name", "order", "presets"}
            /\ data.categories[1].name = "Default"
            /\ data.categories[1].order = 0
            /\ data.categories[1].presets = <<>>
            /\ c.status = "running" => (persisted = None /\ ~ready)
            /\ c.status = "ok" => (persisted = Some(data) /\ c.saves = 1)

\* the first load has returned
C9_Witness ==
    \E t \in Tasks :
        /\ call[t].op = "load"
        /\ call[t].status = "ok"
        /\ call[t].pre = EmptyDict
        /\ ready

\* C10: a mutating call returns only from its wait for the write, and when it
\* returns the persisted document is the in-memory one, the change included.
C10_PersistBeforeReturn ==
    [][\A t \in Tasks :
          (/\ call'[t].op \in MutatingOps
           /\ call'[t].status = "ok"
           /\ call[t].status # "ok") =>
                /\ call[t].status = "running"
                /\ call[t].op = call'[t].op
                /\ call'[t].saves = call[t].saves + 1
                /\ data' = data
                /\ persisted' = Some(data')]_vars

\* a save_category that created a category has returned
C10_Witness ==
    \E t \in Tasks :
        /\ call[t].op = "save_category"
        /\ call[t].status = "ok"
        /\ Len(data.categories) = Len(call[t].pre.categories) + 1
        /\ persisted = Some(data)

\* the arguments each command requires
RequiredArgs(op) ==
    CASE op = "applyColor" -> {"preset_id", "entity_id"}
      [] op = "save_category" -> {"name"}
      [] op = "delete_category" -> {"category_id"}
      [] op = "save_preset" -> {"category_id", "name", "type"}
      [] op = "delete_preset" -> {"category_id", "preset_id"}
      [] OTHER -> {}

\* the argument k is there and its value is not as the command documents it
BadArg(args, k, Good(_)) == k \in DOMAIN args /\ ~Good(args[k])

\* the arguments C11 says fail validation
FailsValidation(c) ==
    \/ ~(RequiredArgs(c.op) \subseteq DOMAIN c.args)
    \/ /\ c.op = "save_preset"
       /\ \/ BadArg(c.args, "type", LAMBDA v : v \in PRESET_TYPES)
          \/ BadArg(c.args, "brightness_pct", LAMBDA v : v \in 0..100)
          \/ BadArg(c.args, "transition", LAMBDA v : v >= 0)
          \/ BadArg(c.args, "color_temp_kelvin", LAMBDA v : v \in 1000..10000)
          \/ BadArg(c.args, "rgb_color",
                    LAMBDA v : Len(v) = 3 /\ \A i \in 1..3 : v[i] \in 0..255)
          \/ BadArg(c.args, "hs_color",
                    LAMBDA v : Len(v) = 2 /\ \A i \in 1..2 : v[i][1] = "number")

\* C11: a command whose arguments fail validation (save_preset: a type that is
\* not one of the four, brightness_pct outside 0..100, transition below 0,
\* color_temp_kelvin outside 1000..10000, rgb_color that is not 3 integers in
\* 0..255, hs_color that is not 2 numbers; any command: a required argument
\* missing) is rejected before the store is called: the document and the
\* persisted document stay as they were and no write is made.
C11_InvalidRejected ==
    \A t \in Tasks :
        LET c == call[t]
        IN (c.op # "none" /\ FailsValidation(c)) =>
            /\ c.status = "invalid"
            /\ data = c.pre
            /\ persisted = Some(c.pre)
            /\ c.saves = 0

\* C12: applyColor with a preset id that no category contains makes no
\* light.turn_on call, raises nothing, and leaves the document and the
\* persisted document as they were.
C12_UnknownPresetSkipped ==
    [][\A t \in Tasks :
          (/\ call[t] = NoCall
           /\ call'[t].op = "applyColor"
           /\ call'[t].status # "invalid"
           /\ call'[t].args["preset_id"] \notin PresetIds(data)) =>
                /\ call'[t].status = "ok"
                /\ call'[t].lights = <<>>
                /\ call'[t].saves = 0
                /\ data' = data
                /\ persisted' = persisted]_vars

\* applyColor named the id of a category while the document held a preset
C12_Witness ==
    \E t \in Tasks :
        /\ call[t].op = "applyColor"
        /\ call[t].status = "ok"
        /\ call[t].lights = <<>>
        /\ PresetIds(call[t].pre) # {}
        /\ call[t].args["preset_id"] \in CategoryIds(call[t].pre)
        /\ call[t].args["preset_id"] \notin PresetIds(call[t].pre)
        /\ data = call[t].pre

\* a save_category that creates a category and names no order
CreatesCategory(c) ==
    /\ c.op = "save_category"
    /\ c.status \in {"running", "ok"}
    /\ "category_id" \notin DOMAIN c.args
    /\ "order" \notin DOMAIN c.args

\* C13: every save_category create without an order, after whatever creates
\* and deletes came before, gives the new category the number of categories
\* in the document just before as its order, and appends it at the end of the
\* list with an empty preset list.
C13_CategoryOrderIsCount ==
    \A t \in Tasks :
        LET c == call[t]
        IN CreatesCategory(c) =>
            LET n == Len(c.pre.categories)
            IN /\ Len(data.categories) = n + 1
               /\ data.categories[n + 1].order = n
               /\ data.categories[n + 1].presets = <<>>
               /\ data.categories[n + 1].name = c.args["name"]
               /\ data.categories[n + 1].id \notin CategoryIds(c.pre)
               /\ SubSeq(data.categories, 1, n) = c.pre.categories
               /\ c.ret = Some(data.categories[n + 1])

\* a create after a delete: the new category got an order another one has
C13_Witness ==
    \E t \in Tasks :
        /\ CreatesCategory(call[t])
        /\ call[t].status = "ok"
        /\ Len(data.categories) = 2
        /\ data.categories[1].order = data.categories[2].order

\* a save_preset that creates a preset in an existing category and names no order
CreatesPreset(c) ==
    /\ c.op = "save_preset"
    /\ c.status \in {"running", "ok"}
    /\ "preset_id" \notin DOMAIN c.args
    /\ "order" \notin DOMAIN c.args

\* C14: every save_preset create without an order, after whatever creates and
\* deletes came before, gives the new preset the number of presets of its
\* category just before as its order, and appends it at the end of that
\* category's list.
C14_PresetOrderIsCount ==
    \A t \in Tasks :
        LET c == call[t]
        IN CreatesPreset(c) =>
            LET ci == FindCategory(c.pre, c.args["category_id"])
                old == c.pre.categories[ci].presets
                new == data.categories[ci].presets
                n == Len(old)
            IN /\ Len(new) = n + 1
               /\ new[n + 1]["order"] = n
               /\ new[n + 1]["id"] \notin PresetIds(c.pre)
               /\ SubSeq(new, 1, n) = old
               /\ data = [c.pre EXCEPT !.categories[ci].presets = Append(old, new[n + 1])]
               /\ c.ret = Some(new[n + 1])

\* a second preset was created in a category and got order 1
C14_Witness ==
    \E t \in Tasks :
        /\ CreatesPreset(call[t])
        /\ call[t].status = "ok"
        /\ LET ci == FindCategory(data, call[t].args["category_id"])
           IN /\ Len(data.categories[ci].presets) = 2
              /\ data.categories[ci].presets[2]["order"] = 1
              /\ data.categories[ci].presets[2] = call[t].ret[1]

\* the ids of a list of categories or presets, in the order of the list
IdSeq(seq) == [i \in DOMAIN seq |-> seq[i]["id"]]

\* the list of ids without x
RECURSIVE Without(_, _)
Without(ids, x) ==
    IF ids = <<>> THEN <<>>
    ELSE IF Head(ids) = x THEN Without(Tail(ids), x)
    ELSE <<Head(ids)>> \o Without(Tail(ids), x)

\* from the ids `old` to the ids `new` no element got another id: the list is
\* the same, or lost the elements of one id, or got one new id at its end
KeepsIds(old, new, fresh) ==
    \/ new = old
    \/ \E i \in DOMAIN old : new = Without(old, old[i])
    \/ new = Append(old, fresh)

IdsDistinct ==
    "categories" \in DOMAIN data =>
        /\ Cardinality(CategoryIds(data)) = Len(data.categories)
        /\ Cardinality(PresetIds(data)) = NumPresets(data.categories)

IdsKept ==
    ("categories" \in DOMAIN data /\ "categories" \in DOMAIN data') =>
        /\ KeepsIds(IdSeq(data.categories), IdSeq(data'.categories), nextId)
        /\ \A i \in DOMAIN data.categories, j \in DOMAIN data'.categories :
                data.categories[i].id = data'.categories[j].id =>
                    KeepsIds(IdSeq(data.categories[i].presets),
                             IdSeq(data'.categories[j].presets), nextId)

\* C15: from the load of an empty store on, the ids of the categories are
\* pairwise distinct and the ids of the presets are pairwise distinct over the
\* whole document, and no step gives a category or a preset of the document
\* another id: an update through save_category or save_preset leaves the id
\* as it was made at creation.
C15_IdsDistinctAndKept == [](IdsDistinct) /\ [][IdsKept]_vars

\* a category with a preset was renamed and kept its id, beside another category
C15_Witness ==
    \E t \in Tasks :
        LET c == call[t]
        IN /\ c.op = "save_category"
           /\ c.status = "ok"
           /\ "category_id" \in DOMAIN c.args
           /\ Len(data.categories) = 2
           /\ LET ci == FindCategory(data, c.args["category_id"])
              IN /\ ci # 0
                 /\ data.categories[ci].name # c.pre.categories[ci].name
                 /\ data.categories[ci].id = c.pre.categories[ci].id
                 /\ data.categories[ci].presets # <<>>

\* a mutating call whose write raised, the store object still the same
WriteFailed(c) ==
    /\ c.op \in MutatingOps
    /\ c.status = "persist_error"
    /\ ~c.reloaded

\* C16 as the spec has it: whenever the write of a mutating call has failed,
\* the in-memory document differs from the persisted one.
C16_FailedWriteDiffers ==
    \A t \in Tasks : WriteFailed(call[t]) => persisted # Some(data)

\* after a failed write: storage holds what it held, the call made its one
\* write attempt, and memory differs from storage when they agreed before the
\* call and the call changed the document
FailedWriteState ==
    \A t \in Tasks :
        LET c == call[t]
        IN WriteFailed(c) =>
            /\ persisted = c.stored
            /\ c.saves = 1
            /\ (c.stored = Some(c.pre) /\ data # c.pre) => persisted # Some(data)

\* a mutating call of any kind that has returned: storage holds the document
\* of the store
GoodWriteState ==
    \A t \in Tasks :
        (call[t].op \in MutatingOps /\ call[t].status = "ok")
            => persisted = Some(data)

\* the step in which a write fails raises to the caller and leaves the
\* document (the change of the call in it) and storage as they are
FailingStep ==
    \A t \in Tasks :
        (call[t].status = "running" /\ call'[t].status # "ok") =>
            /\ call'[t].status = "persist_error"
            /\ data' = data
            /\ persisted' = persisted

\* the document changes only in the synchronous part of a store method, which
\* starts from the document as it is, or when a new store loads what is stored
NoRollback ==
    data' # data =>
        \/ \E t \in Tasks :
                /\ call[t] = NoCall
                /\ call'[t].status = "running"
                /\ call'[t].pre = data
        \/ data' = persisted[1]

\* C16: when the write of a mutating call fails, the error reaches the caller,
\* the change stays in memory and storage stays as it was, so memory differs
\* from storage if they agreed before the call and the call changed the
\* document; no later step undoes the change in the same store; and when a
\* later mutating call of any kind has returned, storage holds the in-memory
\* document.
C16_FailedWriteKeepsChange ==
    [](FailedWriteState /\ GoodWriteState) /\ [][FailingStep /\ NoRollback]_vars

\* a delete of a missing id has returned: it changed nothing, and its write
\* stored a document that storage did not hold before
C16_Witness ==
    \E t \in Tasks :
        LET c == call[t]
        IN /\ c.op \in {"delete_category", "delete_preset"}
           /\ c.status = "ok"
           /\ MissingDelete(c)
           /\ data = c.pre
           /\ c.stored # None
           /\ c.stored # Some(c.pre)
           /\ persisted = Some(data)

\* a save_category that found the category it names
UpdatesCategory(c) ==
    /\ c.op = "save_category"
    /\ c.status \in {"running", "ok"}
    /\ "category_id" \in DOMAIN c.args

\* C17: save_category with the id of a category of the document sets its name
\* to the one given, whatever it was, and its order only when the call gives
\* one; its id, its presets, its place in the list and every other category
\* stay as they were.
C17_CategoryUpdateFrame ==
    \A t \in Tasks :
        LET c == call[t]
        IN UpdatesCategory(c) =>
            LET ci == FindCategory(c.pre, c.args["category_id"])
                old == c.pre.categories[ci]
                new == data.categories[ci]
            IN /\ ci # 0
               /\ new.name = c.args["name"]
               /\ new.order = IF "order" \in DOMAIN c.args THEN c.args["order"]
                               ELSE old.order
               /\ new.id = old.id
               /\ new.presets = old.presets
               /\ DOMAIN new = DOMAIN old
               /\ data = [c.pre EXCEPT !.categories[ci] = new]
               /\ c.ret = Some(new)

\* the first of two categories, holding a preset, was renamed by a call that
\* named no order, and kept its order
C17_Witness ==
    \E t \in Tasks :
        LET c == call[t]
        IN /\ UpdatesCategory(c)
           /\ c.status = "ok"
           /\ "order" \notin DOMAIN c.args
           /\ Len(data.categories) = 2
           /\ c.args["category_id"] = data.categories[1].id
           /\ data.categories[1].name # c.pre.categories[1].name
           /\ data.categories[1].order = c.pre.categories[1].order
           /\ data.categories[1].presets # <<>>

\* new is old without the elements whose id is `id`: every other element is
\* in new as it was, after the same elements as before
RemovedOnly(old, id, new) ==
    LET keep == {i \in DOMAIN old : old[i]["id"] # id}
    IN /\ Len(new) = Cardinality(keep)
       /\ \A i \in keep : new[Cardinality({j \in keep : j <= i})] = old[i]

\* C18: delete_category and delete_preset take out the elements whose id is
\* the one named and nothing else: the categories and presets that stay keep
\* every field, their order value too, and stay in the sequence they were in;
\* delete_preset changes no category but the one named.
C18_DeleteFrame ==
    \A t \in Tasks :
        LET c == call[t]
        IN /\ (c.op = "delete_category" /\ c.status \in {"running", "ok"}) =>
                /\ RemovedOnly(c.pre.categories, c.args["category_id"],
                               data.categories)
                /\ data = [c.pre EXCEPT !.categories = data.categories]
           /\ (c.op = "delete_preset" /\ c.status \in {"running", "ok"}) =>
                LET ci == FindCategory(c.pre, c.args["category_id"])
                IN /\ ci # 0
                   /\ RemovedOnly(c.pre.categories[ci].presets, c.args["preset_id"],
                                  data.categories[ci].presets)
                   /\ data = [c.pre EXCEPT !.categories[ci].presets =
                                                data.categories[ci].presets]

\* the first of two presets was deleted: the other one is now the first, with
\* order 1
C18_Witness ==
    \E t \in Tasks :
        LET c == call[t]
        IN /\ c.op = "delete_preset"
           /\ c.status = "ok"
           /\ LET ci == FindCategory(c.pre, c.args["category_id"])
              IN /\ ci # 0
                 /\ Len(c.pre.categories[ci].presets) = 2
                 /\ Len(data.categories[ci].presets) = 1
                 /\ data.categories[ci].presets[1] = c.pre.categories[ci].presets[2]
                 /\ data.categories[ci].presets[1]["order"] = 1

\* both tasks have a mutating call that returned
BothReturned ==
    \A t \in Tasks : call[t].op \in MutatingOps /\ call[t].status = "ok"

\* C19: when two mutating calls, each changing the document in one step and
\* then waiting for a write of the whole document, have both returned, in
\* whatever order their steps and writes came, the in-memory document is the
\* second change made on top of the first, and the persisted document is the
\* in-memory one: no update is lost.
C19_NoLostUpdate ==
    BothReturned =>
        /\ persisted = Some(data)
        /\ \E a, b \in Tasks :
                /\ a # b
                /\ call[b].pre = Effect(call[a])
                /\ data = Effect(call[b])

\* both returned, each changed the document, and the second started while
\* the change of the first was not yet stored
C19_Witness ==
    /\ BothReturned
    /\ \E a, b \in Tasks :
            /\ a # b
            /\ call[a].stored = Some(call[a].pre)
            /\ call[b].pre # call[a].pre
            /\ call[b].stored = Some(call[a].pre)
            /\ data # call[b].pre
            /\ call[a].saves = 1
            /\ call[b].saves = 1

\* a delete_category that named the only category of the document has returned
DeletedLast(c) ==
    /\ c.op = "delete_category"
    /\ c.status = "ok"
    /\ CategoryIds(c.pre) = {c.args["category_id"]}

\* such a delete leaves a document without categories, in memory and stored,
\* and a store loaded after it has no category either
ZeroCategoriesStay ==
    \A t \in Tasks :
        DeletedLast(call[t]) =>
            /\ data.categories = <<>>
            /\ persisted = Some(data)
            /\ data.version = STORAGE_VERSION

\* a load seeds only when nothing is stored; a load that finds a document takes
\* it as it is and writes nothing
SeedsOnlyWhenNothingStored ==
    /\ \A t \in Tasks :
            (call'[t].op = "load" /\ call[t].op # "load") => persisted = None
    /\ (persisted # None /\ \E t \in Tasks : call'[t].reloaded /\ ~call[t].reloaded)
            => (data' = persisted[1] /\ persisted' = persisted)

\* C20: the "Default" category is seeded only by a load that finds nothing
\* stored: delete_category can remove it, and can remove the last category,
\* which leaves a document with no categories; a later load of that stored
\* document gives no categories and does not seed again. The store does not
\* keep at least one category.
C20_NoReseed == [](ZeroCategoriesStay) /\ [][SeedsOnlyWhenNothingStored]_vars

\* the seeded "Default" category, the only one, was deleted, and a new store
\* loaded after that holds no category
C20_Witness ==
    \E t \in Tasks :
        /\ DeletedLast(call[t])
        /\ call[t].pre.categories[1].name = DEFAULT_CATEGORY_NAME
        /\ call[t].reloaded
        /\ ready
        /\ data.categories = <<>>
        /\ persisted[1].categories = <<>>

====
